---------------------------- MODULE Spec2Model ----------------------------
(***************************************************************************)
(* PDF image extraction (extract.py): one run of                           *)
(* PDFImageExtractor.extract_images_from_pdf over a document, page by page *)
(* and image reference by image reference, with the statistics record, the *)
(* list of extracted images, the output folder, the progress callback and  *)
(* the error log.  The logo classifier _is_logo_like, which changes        *)
(* nothing but the log, is also exercised on its own over a grid of        *)
(* images (SpecLogo).                                                      *)
(***************************************************************************)
EXTENDS Integers, Sequences, FiniteSets

(***************************************************************************)
(* Bounds of the explored documents.                                       *)
(***************************************************************************)
\* Largest number of pages of a document.
MaxPages == 3
\* Largest number of image references in a whole document.
MaxRefs == 2

(***************************************************************************)
(* config.py                                                               *)
(***************************************************************************)
SUPPORTED_IMAGE_FORMATS == {"jpeg", "jpg", "png", "gif", "bmp", "tiff"}

MIN_IMAGE_SIZE_KB == 1

(***************************************************************************)
(* Values the PDF library hands to the extractor.                          *)
(*                                                                         *)
(* The bytes of an image are known to the code only through their length   *)
(* and through what PIL makes of them: whether Image.open decodes them     *)
(* and, if so, the size and the colour mode.                               *)
(***************************************************************************)
Bytes(len, decodable, width, height, mode) ==
    [len |-> len, decodable |-> decodable, width |-> width,
     height |-> height, mode |-> mode]

\* str.lower() on the format extensions that occur.
Lower(ext) ==
    CASE ext = "PNG" -> "png"
      [] ext = "JPEG" -> "jpeg"
      [] ext = "JPX" -> "jpx"
      [] OTHER -> ext

\* An image reference of a page with what the environment answers for it:
\* fetch is what pdf.extract_image(xref) does ("raise", "none" for a falsy
\* result, "ok" for a dict with "image" and "ext"), write_ok whether
\* open(full_path, "wb") and f.write succeed.  Where they do not, either
\* open raised and there is no file, or f.write raised and the file holds
\* the bytes that went out before.
Ref(fetch, ext, image, write_ok) ==
    [fetch |-> fetch, ext |-> ext, image |-> image, write_ok |-> write_ok]

NoBytes == Bytes(0, FALSE, 0, 0, "")

\* A file that holds the first bytes of what was being written and not all
\* of them: none, or as many as went out before the write raised.  No
\* operation of the program reads how many they are, and the model keeps
\* no number for them: a file of 0, of 4096 and of len - 1 bytes of an
\* image are this one value.
Prefix(image) == [prefix_of |-> image]

\* Whether a file is such a leftover of a write that raised.
IsPrefix(file) == DOMAIN file = {"prefix_of"}

\* What a file may hold that was opened for writing when f.write raised.
PartialFiles(image) == {Prefix(image)}

\* pdf.extract_image raises.
RefRaise == Ref("raise", "", NoBytes, TRUE)
\* pdf.extract_image returns nothing.
RefNone == Ref("none", "", NoBytes, TRUE)
\* 50x50 opaque PNG of 2 KiB.
RefLogo == Ref("ok", "png", Bytes(2048, TRUE, 50, 50, "RGB"), TRUE)
\* 800x600 JPEG of 20 KiB.
RefPhoto == Ref("ok", "jpeg", Bytes(20480, TRUE, 800, 600, "RGB"), TRUE)
\* 800x600 PNG of half a KiB.
RefTiny == Ref("ok", "png", Bytes(512, TRUE, 800, 600, "RGB"), TRUE)
\* 50x50 JPEG 2000 of 20 KiB: a format outside the supported list.
RefJpx == Ref("ok", "jpx", Bytes(20480, TRUE, 50, 50, "RGB"), TRUE)
\* 800x600 PNG with alpha, extension reported in upper case.
RefAlpha == Ref("ok", "PNG", Bytes(20481, TRUE, 800, 600, "RGBA"), TRUE)
\* 800x600 JPEG whose file cannot be written.
RefNoWrite == Ref("ok", "jpeg", Bytes(20482, TRUE, 800, 600, "RGB"), FALSE)
\* 20 KiB of BMP data that PIL cannot decode.
RefUndecodable == Ref("ok", "bmp", Bytes(20484, FALSE, 0, 0, ""), TRUE)

Refs == {RefRaise, RefNone, RefLogo, RefPhoto, RefTiny, RefJpx, RefAlpha,
         RefNoWrite, RefUndecodable}

\* A page: pdf[page_index] raises ("load_error"), page.get_images raises
\* ("enum_error"), or get_images returns the list images.
Page(kind, images) == [kind |-> kind, images |-> images]

PageKinds == {"ok", "load_error", "enum_error"}

RECURSIVE SumTo(_, _)
\* counts[1] + ... + counts[n]
SumTo(counts, n) == IF n = 0 THEN 0 ELSE counts[n] + SumTo(counts, n - 1)

\* The pages of a document from the kind of each page, the number of image
\* references of each page and the references of the document in page order.
BuildPages(kinds, counts, flat) ==
    [i \in DOMAIN kinds |->
        Page(kinds[i], SubSeq(flat, SumTo(counts, i - 1) + 1, SumTo(counts, i)))]

\* A page that cannot be loaded or enumerated shows no image reference.
WellFormed(kinds, counts) ==
    /\ SumTo(counts, Len(counts)) <= MaxRefs
    /\ \A i \in DOMAIN kinds : kinds[i] # "ok" => counts[i] = 0

\* A PDF path: missing, not openable, or a document with its pages.
Pdf(status, pages) == [status |-> status, pages |-> pages]

\* The documents explored: up to MaxPages pages, up to MaxRefs references.
IsPdf(d) ==
    \/ d \in {Pdf("missing", <<>>), Pdf("corrupt", <<>>)}
    \/ \E p \in 0..MaxPages :
         \E counts \in [1..p -> 0..MaxRefs] :
           \E kinds \in [1..p -> PageKinds] :
             /\ WellFormed(kinds, counts)
             /\ \E flat \in [1..SumTo(counts, p) -> Refs] :
                  d = Pdf("ok", BuildPages(kinds, counts, flat))

(***************************************************************************)
(* State                                                                   *)
(***************************************************************************)
VARIABLES
    pdf,               \* the document behind pdf_path
    filter_logos,      \* the filter_logos argument
    has_callback,      \* whether a progress_callback is given
    callback_fails_at, \* the call at which progress_callback raises, 0 for none
    callback_exception, \* what it raises: an Exception or another BaseException
    pc,                \* where extract_images_from_pdf stands
    page_index,        \* loop variable of the page loop
    img_index,         \* loop variable of the image loop
    stats,             \* self.stats
    extracted_images,  \* self.extracted_images
    files,             \* the output folder: file name -> bytes
    progress,          \* the calls of progress_callback so far
    log,               \* logger.error records
    error,             \* the exception extract_images_from_pdf raised
    visited,           \* the image references _extract_single_image was called on
    probe,             \* SpecLogo: the bytes given to _is_logo_like
    answer,            \* SpecLogo: what _is_logo_like returned
    calls,             \* SpecReuse: calls of the methods of this extractor
    app,               \* SpecApp: the state of process_uploaded_file and its folders
    objs,              \* SpecStats: the stats dictionaries as objects
    optimized_images,  \* what optimize_images returned last
    session            \* SpecUI: st.session_state and what the gallery shows

vars == <<pdf, filter_logos, has_callback, callback_fails_at, callback_exception, pc, page_index, img_index, stats,
          extracted_images,
          files, progress, log, error, visited, probe, answer, calls, optimized_images, app, objs, session>>

runvars == <<pdf, filter_logos, has_callback, callback_fails_at, callback_exception, pc, page_index, img_index, stats,
             extracted_images,
             files, progress, log, error, visited>>

(***************************************************************************)
(* PDFImageExtractor.__init__                                              *)
(***************************************************************************)
InitStats ==
    [total_pages |-> 0, total_images |-> 0, successful_extractions |-> 0,
     failed_extractions |-> 0, total_size_bytes |-> 0, filtered_logos |-> 0]

NoError == [type |-> "none", cause |-> "none"]

\* An output folder with no file in it.
NoFiles == [n \in {} |-> NoBytes]

\* No upload is being processed.
NoApp == [pc |-> "off"]

\* No stats dictionary is looked at as an object.
NoObjs == [heap |-> <<>>]

\* No page of the application is rendered.
NoSession == [displayed |-> FALSE]

(***************************************************************************)
(* _is_logo_like                                                           *)
(***************************************************************************)
\* 0.8 <= width / height <= 1.2 of the float quotient.  The quotient is the
\* correctly rounded value of width/height and 0.8, 1.2 are the correctly
\* rounded values of 4/5, 6/5, so for image sizes the comparison is the
\* one of the exact fractions.
\* Variant: the bounds of the ratio taken as strict.
SquareIshStrict(width, height) == 4 * height < 5 * width /\ 5 * width < 6 * height

SquareIsh(width, height) == 4 * height <= 5 * width /\ 5 * width <= 6 * height

\* Variant: an image that cannot be analysed is taken for a logo.
IsLogoLikeUnlessAnalysed(image_bytes) ==
    IF ~image_bytes.decodable THEN TRUE
    ELSE IF image_bytes.width < 100 \/ image_bytes.height < 100 THEN TRUE
    ELSE IF SquareIsh(image_bytes.width, image_bytes.height) THEN TRUE
    ELSE IF image_bytes.mode \in {"RGBA", "LA", "P"} THEN TRUE
    ELSE IF image_bytes.len < 10 * 1024 THEN TRUE
    ELSE FALSE

_is_logo_like(image_bytes) ==
    IF ~image_bytes.decodable THEN FALSE
    ELSE IF image_bytes.width < 100 \/ image_bytes.height < 100 THEN TRUE
    ELSE IF SquareIsh(image_bytes.width, image_bytes.height) THEN TRUE
    ELSE IF image_bytes.mode \in {"RGBA", "LA", "P"} THEN TRUE
    ELSE IF image_bytes.len < 10 * 1024 THEN TRUE
    ELSE FALSE

\* Lines 214-216: what _is_logo_like logs, one record where the image
\* cannot be analysed.
LogoLog(image_bytes) == IF image_bytes.decodable THEN <<>> ELSE <<<<"logo", 0>>>>

(***************************************************************************)
(* _extract_single_image                                                   *)
(***************************************************************************)
\* Variant: any non-empty extension passes.
IsSupportedNonEmpty(image_ext) == image_ext # ""

IsSupported(image_ext) == image_ext \in SUPPORTED_IMAGE_FORMATS

\* Variant: the length in bytes compared with the limit in KB.
TooSmallUnscaled(image_bytes) == image_bytes.len < MIN_IMAGE_SIZE_KB

\* image_size_kb < MIN_IMAGE_SIZE_KB with image_size_kb = len / 1024.
TooSmall(image_bytes) == image_bytes.len < MIN_IMAGE_SIZE_KB * 1024

\* Variant: the 0-based loop variables go into the name.
ImageFilenameZeroBased(page_idx, img_idx, image_ext) ==
    [page |-> page_idx, img |-> img_idx, ext |-> image_ext]

\* page{N}_img{M}.{ext}
ImageFilename(page_idx, img_idx, image_ext) ==
    [page |-> page_idx + 1, img |-> img_idx + 1, ext |-> image_ext]

\* Variant: the logo filter is applied whatever filter_logos says.
SingleImageOutcomeAlwaysFilter(ref, filter) ==
    IF ref.fetch = "raise" THEN "fetch_raise"
    ELSE IF ref.fetch = "none" THEN "no_data"
    ELSE IF ~IsSupported(Lower(ref.ext)) THEN "unsupported"
    ELSE IF TooSmall(ref.image) THEN "too_small"
    ELSE IF _is_logo_like(ref.image) THEN "filtered"
    ELSE IF ~ref.write_ok THEN "write_raise"
    ELSE "saved"

\* The path through _extract_single_image for one reference.
SingleImageOutcome(ref, filter) ==
    IF ref.fetch = "raise" THEN "fetch_raise"
    ELSE IF ref.fetch = "none" THEN "no_data"
    ELSE IF ~IsSupported(Lower(ref.ext)) THEN "unsupported"
    ELSE IF TooSmall(ref.image) THEN "too_small"
    ELSE IF filter /\ _is_logo_like(ref.image) THEN "filtered"
    ELSE IF ~ref.write_ok THEN "write_raise"
    ELSE "saved"

\* Line 148: _is_logo_like is called, for a reference that passed the
\* format and size checks with filter_logos on.
CallsLogoCheck(ref, filter) ==
    /\ filter
    /\ ref.fetch = "ok"
    /\ IsSupported(Lower(ref.ext))
    /\ ~TooSmall(ref.image)

\* _extract_single_image raised ImageExtractionError.
Raised(outcome) == outcome \in {"fetch_raise", "write_raise"}

\* Variant: total_images counts every image that passed the format and size
\* checks, filtered or saved.
StatsAfterImageFound(st, ref, outcome) ==
    CASE outcome = "saved" ->
           [st EXCEPT !.successful_extractions = @ + 1,
                      !.total_images = @ + 1,
                      !.total_size_bytes = @ + ref.image.len]
      [] outcome = "filtered" ->
           [st EXCEPT !.filtered_logos = @ + 1, !.total_images = @ + 1]
      [] outcome \in {"fetch_raise", "write_raise"} ->
           [st EXCEPT !.failed_extractions = @ + 1]
      [] OTHER -> st

\* Variant: an image that is skipped is counted as failed too.
StatsAfterImageSkipFails(st, ref, outcome) ==
    CASE outcome = "saved" ->
           [st EXCEPT !.successful_extractions = @ + 1,
                      !.total_images = @ + 1,
                      !.total_size_bytes = @ + ref.image.len]
      [] outcome = "filtered" -> [st EXCEPT !.filtered_logos = @ + 1]
      [] OTHER -> [st EXCEPT !.failed_extractions = @ + 1]

\* Variant: a raising image is logged and not counted.
StatsAfterImageUncounted(st, ref, outcome) ==
    CASE outcome = "saved" ->
           [st EXCEPT !.successful_extractions = @ + 1,
                      !.total_images = @ + 1,
                      !.total_size_bytes = @ + ref.image.len]
      [] outcome = "filtered" -> [st EXCEPT !.filtered_logos = @ + 1]
      [] OTHER -> st

\* self.stats after _extract_single_image and the handler around its call.
\* total_size_bytes stands for total_size_mb * (1024 * 1024): the code adds
\* len(image_bytes) / (1024 * 1024), an exact quotient.
StatsAfterImage(st, ref, outcome) ==
    CASE outcome = "saved" ->
           [st EXCEPT !.successful_extractions = @ + 1,
                      !.total_images = @ + 1,
                      !.total_size_bytes = @ + ref.image.len]
      [] outcome = "filtered" -> [st EXCEPT !.filtered_logos = @ + 1]
      [] Raised(outcome) -> [st EXCEPT !.failed_extractions = @ + 1]
      [] OTHER -> st

WriteFile(fs, name, content) ==
    [n \in DOMAIN fs \cup {name} |-> IF n = name THEN content ELSE fs[n]]

(***************************************************************************)
(* extract_images_from_pdf                                                 *)
(***************************************************************************)
NumPages == Len(pdf.pages)

CurrentPage == pdf.pages[page_index + 1]

CurrentRef == CurrentPage.images[img_index + 1]

Raise(cause) == [type |-> "PDFProcessingError", cause |-> cause]

\* An exception that "except Exception" of lines 79-81 does not catch
\* (KeyboardInterrupt, SystemExit, a script-control exception of the UI)
\* leaves the run as it is.
Propagate(cause) == [type |-> "BaseException", cause |-> cause]

\* Variant: only the pages that show images are counted.
TotalPagesWithImages(pages) ==
    Cardinality({i \in DOMAIN pages : pages[i].images # <<>>})

\* total_pages as set on opening the document.
TotalPagesOf(pages) == Len(pages)

\* Variant: only a missing path is refused; anything else is taken as opened.
OpenOutcomeMissingOnly(status) ==
    IF status = "missing" THEN "not_found" ELSE "opened"

\* The existence check of the path, then fitz.open.
OpenOutcome(status) ==
    CASE status = "missing" -> "not_found"
      [] status = "corrupt" -> "open_failed"
      [] OTHER -> "opened"

\* The call of progress_callback that raises.
CallbackRaises(k) == callback_fails_at = k

\* What a callback can raise: a subclass of Exception, or a BaseException
\* that is none.
CallbackExceptions == {"Exception", "BaseException"}

\* Variant: an exception of the callback is dropped and the page is
\* processed.
CallbackFailureIgnored(kind) == [pc |-> "page", error |-> NoError, logged |-> FALSE]

\* An exception of progress_callback leaves the page loop.  The handler of
\* lines 79-81 catches an Exception, logs it and raises PDFProcessingError;
\* any other exception passes the handler: nothing is logged and the caller
\* gets the callback's exception.
CallbackFailure(kind) ==
    IF kind = "Exception"
    THEN [pc |-> "raised", error |-> Raise("callback"), logged |-> TRUE]
    ELSE [pc |-> "raised", error |-> Propagate("callback"), logged |-> FALSE]

\* Variant: the 0-based loop variable is passed on.
CallbackArgsZeroBased(idx, total) == <<idx, total>>

\* progress_callback(page_index + 1, len(pdf))
CallbackArgs(idx, total) == <<idx + 1, total>>

Init ==
    /\ IsPdf(pdf)
    /\ filter_logos \in BOOLEAN
    /\ has_callback \in BOOLEAN
    /\ callback_fails_at = 0
    /\ callback_exception = "none"
    /\ pc = "start"
    /\ page_index = 0
    /\ img_index = 0
    /\ stats = InitStats
    /\ extracted_images = <<>>
    /\ files = NoFiles
    /\ progress = <<>>
    /\ log = <<>>
    /\ error = NoError
    /\ visited = <<>>
    /\ probe = NoBytes
    /\ answer = "none"
    /\ calls = 1
    /\ optimized_images = <<>>
    /\ app = NoApp
    /\ objs = NoObjs
    /\ session = NoSession

\* Lines 56-66 and 79-81: the existence check and fitz.open.
OpenPdf ==
    /\ pc = "start"
    /\ IF OpenOutcome(pdf.status) = "opened"
       THEN /\ stats' = [stats EXCEPT !.total_pages = TotalPagesOf(pdf.pages)]
            /\ pc' = "loop"
            /\ UNCHANGED <<log, error>>
       ELSE /\ pc' = "raised"
            /\ error' = Raise(OpenOutcome(pdf.status))
            /\ log' = Append(log, <<"pdf", 0>>)
            /\ UNCHANGED stats
    /\ UNCHANGED <<pdf, filter_logos, has_callback, callback_fails_at, callback_exception, page_index, img_index, extracted_images,
                   files, progress, visited, probe, answer, calls, optimized_images, app, objs, session>>

\* Lines 69-71 and 79-81: the progress callback of one pass of the page
\* loop.  An exception of the callback is caught by the handler of the
\* whole run.
ProgressCallback ==
    /\ pc = "loop"
    /\ page_index < NumPages
    /\ progress' = IF has_callback
                   THEN Append(progress, CallbackArgs(page_index, NumPages))
                   ELSE progress
    /\ IF has_callback /\ CallbackRaises(Len(progress) + 1)
       THEN /\ pc' = CallbackFailure(callback_exception).pc
            /\ error' = CallbackFailure(callback_exception).error
            /\ log' = IF CallbackFailure(callback_exception).logged
                      THEN Append(log, <<"pdf", page_index + 1>>)
                      ELSE log
       ELSE /\ pc' = "page"
            /\ UNCHANGED <<log, error>>
    /\ UNCHANGED <<pdf, filter_logos, has_callback, callback_fails_at, callback_exception, page_index, img_index,
                   stats, extracted_images, files, visited, probe, answer, calls, optimized_images, app, objs, session>>

\* Lines 73-74 and 93-101, 111-112: pdf[page_index], then get_images.
ExtractImagesFromPage ==
    /\ pc = "page"
    /\ CASE CurrentPage.kind = "load_error" ->
              /\ pc' = "raised"
              /\ error' = Raise("load_page")
              /\ log' = Append(log, <<"pdf", page_index + 1>>)
              /\ UNCHANGED <<page_index, img_index>>
         [] CurrentPage.kind = "enum_error" ->
              /\ pc' = "loop"
              /\ page_index' = page_index + 1
              /\ log' = Append(log, <<"page", page_index + 1>>)
              /\ UNCHANGED <<error, img_index>>
         [] OTHER ->
              IF CurrentPage.images = <<>>
              THEN /\ pc' = "loop"
                   /\ page_index' = page_index + 1
                   /\ UNCHANGED <<log, error, img_index>>
              ELSE /\ pc' = "image"
                   /\ img_index' = 0
                   /\ UNCHANGED <<log, error, page_index>>
    /\ UNCHANGED <<pdf, filter_logos, has_callback, callback_fails_at, callback_exception, stats, extracted_images, files, progress,
                   visited, probe, answer, calls, optimized_images, app, objs, session>>

\* Lines 104-109 with 125-171: one pass of the image loop.
ExtractSingleImage ==
    /\ pc = "image"
    /\ LET ref == CurrentRef
           outcome == SingleImageOutcome(ref, filter_logos)
           name == ImageFilename(page_index, img_index, Lower(ref.ext))
       IN /\ stats' = StatsAfterImage(stats, ref, outcome)
          /\ CASE outcome = "saved" ->
                    /\ files' = WriteFile(files, name, ref.image)
                    /\ extracted_images' = Append(extracted_images, name)
               [] outcome = "write_raise" ->
                    /\ files' \in {files} \cup {WriteFile(files, name, left) :
                                                 left \in PartialFiles(ref.image)}
                    /\ UNCHANGED extracted_images
               [] OTHER -> UNCHANGED <<files, extracted_images>>
          /\ log' = log
                     \o (IF CallsLogoCheck(ref, filter_logos) THEN LogoLog(ref.image) ELSE <<>>)
                     \o (IF Raised(outcome)
                         THEN <<<<"single", page_index + 1>>, <<"image", page_index + 1>>>>
                         ELSE <<>>)
    /\ visited' = Append(visited, <<page_index + 1, img_index + 1>>)
    /\ IF img_index + 1 < Len(CurrentPage.images)
       THEN /\ img_index' = img_index + 1
            /\ UNCHANGED <<pc, page_index>>
       ELSE /\ pc' = "loop"
            /\ page_index' = page_index + 1
            /\ UNCHANGED img_index
    /\ UNCHANGED <<pdf, filter_logos, has_callback, callback_fails_at, callback_exception, progress, error, probe, answer, calls, optimized_images, app, objs, session>>

\* Lines 76-77: the page loop is over.
ReturnImages ==
    /\ pc = "loop"
    /\ page_index = NumPages
    /\ pc' = "returned"
    /\ UNCHANGED <<pdf, filter_logos, has_callback, callback_fails_at, callback_exception, page_index, img_index, stats, extracted_images,
                   files, progress, log, error, visited, probe, answer, calls, optimized_images, app, objs, session>>

Next ==
    \/ OpenPdf
    \/ ProgressCallback
    \/ ExtractImagesFromPage
    \/ ExtractSingleImage
    \/ ReturnImages

Spec == Init /\ [][Next]_vars

(***************************************************************************)
(* _is_logo_like on its own, over a grid of images.                        *)
(***************************************************************************)
ProbeLens == {512, 1024, 10239, 10240, 20480}

ProbeDims == {1, 50, 99, 100, 119, 120, 121, 124, 125, 126, 150, 800}

ProbeModes == {"RGB", "RGBA", "LA", "P", "L", "CMYK", "1"}

Probes ==
    {Bytes(l, TRUE, w, h, m) : l \in ProbeLens, w \in ProbeDims, h \in ProbeDims,
                               m \in ProbeModes}
    \cup {Bytes(l, FALSE, 0, 0, "") : l \in ProbeLens}

InitLogo ==
    /\ probe \in Probes
    /\ answer = "none"
    /\ pdf = Pdf("missing", <<>>)
    /\ filter_logos = TRUE
    /\ has_callback = FALSE
    /\ callback_fails_at = 0
    /\ callback_exception = "none"
    /\ pc = "idle"
    /\ page_index = 0
    /\ img_index = 0
    /\ stats = InitStats
    /\ extracted_images = <<>>
    /\ files = NoFiles
    /\ progress = <<>>
    /\ log = <<>>
    /\ error = NoError
    /\ visited = <<>>
    /\ calls = 0
    /\ optimized_images = <<>>
    /\ app = NoApp
    /\ objs = NoObjs
    /\ session = NoSession

\* One call of _is_logo_like(image_bytes).
Classify ==
    /\ answer = "none"
    /\ answer' = IF _is_logo_like(probe) THEN "logo" ELSE "not_logo"
    /\ log' = log \o LogoLog(probe)
    /\ UNCHANGED <<pdf, filter_logos, has_callback, callback_fails_at, callback_exception, pc, page_index, img_index,
                   stats, extracted_images, files, progress, error, visited, probe, calls, optimized_images, app,
                   objs, session>>

NextLogo == Classify

SpecLogo == InitLogo /\ [][NextLogo]_vars

(***************************************************************************)
(* A second call of extract_images_from_pdf on the same PDFImageExtractor. *)
(***************************************************************************)
MaxCalls == 2

DocPhoto == Pdf("ok", <<Page("ok", <<RefPhoto>>)>>)

DocLogoPhoto ==
    Pdf("ok", <<Page("ok", <<RefLogo>>), Page("ok", <<>>), Page("ok", <<RefPhoto>>)>>)

DocNoImages == Pdf("ok", <<Page("ok", <<>>)>>)

DocBrokenPage == Pdf("ok", <<Page("ok", <<RefAlpha>>), Page("load_error", <<>>)>>)

DocBadWrite == Pdf("ok", <<Page("ok", <<RefNoWrite, RefJpx>>)>>)

DocCorrupt == Pdf("corrupt", <<>>)

DocUndecodable == Pdf("ok", <<Page("ok", <<RefUndecodable, RefAlpha>>)>>)

DocMissing == Pdf("missing", <<>>)

\* The documents the extractor is called on.
ReusePdfs ==
    {DocPhoto, DocLogoPhoto, DocNoImages, DocBrokenPage, DocBadWrite, DocCorrupt, DocMissing,
     DocUndecodable}

\* extractor = PDFImageExtractor(output_folder), then the first call.
InitReuse ==
    /\ pdf \in ReusePdfs
    /\ filter_logos \in BOOLEAN
    /\ has_callback = TRUE
    /\ callback_fails_at = 0
    /\ callback_exception = "none"
    /\ pc = "start"
    /\ page_index = 0
    /\ img_index = 0
    /\ stats = InitStats
    /\ extracted_images = <<>>
    /\ files = NoFiles
    /\ progress = <<>>
    /\ log = <<>>
    /\ error = NoError
    /\ visited = <<>>
    /\ probe = NoBytes
    /\ answer = "none"
    /\ calls = 1
    /\ optimized_images = <<>>
    /\ app = NoApp
    /\ objs = NoObjs
    /\ session = NoSession

\* extractor.extract_images_from_pdf(...) once more, on the same object and
\* the same output folder: lines 56-66 set no counter but total_pages and
\* leave self.extracted_images as it is.  progress and visited are those of
\* the call.
CallAgain ==
    /\ pc \in {"returned", "raised"}
    /\ calls < MaxCalls
    /\ calls' = calls + 1
    /\ pdf' \in ReusePdfs
    /\ filter_logos' \in BOOLEAN
    /\ pc' = "start"
    /\ page_index' = 0
    /\ img_index' = 0
    /\ error' = NoError
    /\ progress' = <<>>
    /\ visited' = <<>>
    /\ UNCHANGED <<has_callback, callback_fails_at, callback_exception, stats, extracted_images, files, log, probe, answer, optimized_images, app, objs, session>>

\* Lines 243-244: RGBA, LA and P images are converted to RGB.
ConvertMode(mode) == IF mode \in {"RGBA", "LA", "P"} THEN "RGB" ELSE mode

\* Lines 267-268: {stem}_optimized{suffix}, in the folder of the image.
OptimizedPath(image_path) ==
    [page |-> image_path.page, img |-> image_path.img, ext |-> image_path.ext,
     optimized |-> TRUE]

\* The lengths a file encoded again by img.save may have.
OptimizedLens == {4096, 16384}

\* What Image.open, img.convert and img.save do on a file PIL can read:
\* the file is written, with one of the lengths, or one of them raises,
\* with no file touched or with the first bytes of that file in it.
SaveChoices ==
    {c \in [raises : BOOLEAN, file : BOOLEAN, len : OptimizedLens] : c.raises \/ c.file}

\* What PIL reads from a file: the image in it, also where the last
\* bytes are missing; that PIL stops at the missing bytes is one of the
\* ways the call raises.
ImageIn(file) == IF IsPrefix(file) THEN file.prefix_of ELSE file

\* Lines 249-278 on the folder, the log and the list st holds: a file that
\* is not there or that Image.open cannot read, and a load or save that
\* raises, are logged and give no path.
_optimize_single_image(st, image_path, choice) ==
    LET failed == [st EXCEPT !.log = Append(@, <<"optimize", image_path.page>>)]
    IN IF \/ image_path \notin DOMAIN st.files
          \/ ~ImageIn(st.files[image_path]).decodable
       THEN failed
       ELSE LET img == ImageIn(st.files[image_path])
                encoded == Bytes(choice.len, TRUE, img.width, img.height,
                                 ConvertMode(img.mode))
                content == IF choice.raises THEN Prefix(encoded) ELSE encoded
                written == IF choice.file
                           THEN WriteFile(st.files, OptimizedPath(image_path), content)
                           ELSE st.files
            IN IF choice.raises
               THEN [failed EXCEPT !.files = written]
               ELSE [st EXCEPT !.files = written,
                               !.optimized_images = Append(@, OptimizedPath(image_path))]

\* Lines 237-247: the loop over self.extracted_images, from entry i on.
RECURSIVE optimize_images(_, _, _)
optimize_images(st, i, choices) ==
    IF i > Len(extracted_images)
    THEN st
    ELSE optimize_images(_optimize_single_image(st, extracted_images[i], choices[i]),
                         i + 1, choices)

\* extractor.optimize_images() after a call of extract_images_from_pdf.
OptimizeImages ==
    /\ pc \in {"returned", "raised"}
    /\ calls < MaxCalls
    /\ calls' = calls + 1
    /\ \E choices \in [DOMAIN extracted_images -> SaveChoices] :
         LET done == optimize_images([files |-> files, log |-> log,
                                      optimized_images |-> <<>>], 1, choices)
         IN /\ files' = done.files
            /\ log' = done.log
            /\ optimized_images' = done.optimized_images
    /\ UNCHANGED <<pdf, filter_logos, has_callback, callback_fails_at, callback_exception,
                   pc, page_index, img_index, stats, extracted_images, progress, error,
                   visited, probe, answer, app, objs, session>>

NextReuse ==
    \/ OpenPdf
    \/ ProgressCallback
    \/ ExtractImagesFromPage
    \/ ExtractSingleImage
    \/ ReturnImages
    \/ CallAgain
    \/ OptimizeImages

SpecReuse == InitReuse /\ [][NextReuse]_vars

(***************************************************************************)
(* Runs whose progress callback may raise.                                 *)
(***************************************************************************)
DocBadEnum ==
    Pdf("ok", <<Page("ok", <<RefPhoto>>), Page("enum_error", <<>>), Page("ok", <<RefAlpha>>)>>)

CallbackPdfs == ReusePdfs \cup {DocBadEnum}

\* A call with a progress_callback that raises at one of its calls, or at
\* none.
InitCallback ==
    /\ pdf \in CallbackPdfs
    /\ filter_logos \in BOOLEAN
    /\ has_callback \in BOOLEAN
    /\ callback_fails_at \in 0..MaxPages
    /\ callback_exception \in IF callback_fails_at = 0 THEN {"none"} ELSE CallbackExceptions
    /\ pc = "start"
    /\ page_index = 0
    /\ img_index = 0
    /\ stats = InitStats
    /\ extracted_images = <<>>
    /\ files = NoFiles
    /\ progress = <<>>
    /\ log = <<>>
    /\ error = NoError
    /\ visited = <<>>
    /\ probe = NoBytes
    /\ answer = "none"
    /\ calls = 1
    /\ optimized_images = <<>>
    /\ app = NoApp
    /\ objs = NoObjs
    /\ session = NoSession

SpecCallback == InitCallback /\ [][Next]_vars

(***************************************************************************)
(* get_extraction_stats: the stats dictionaries as objects.  objs.heap     *)
(* holds the dictionaries, a reference is an index into it; objs.self is   *)
(* the reference held in self.stats, objs.returned the references the      *)
(* callers were given.  objs.expect_self and objs.expect_returned record   *)
(* what each dictionary holds if it is changed by its owner only.          *)
(***************************************************************************)
MaxActivity == 3

MaxCopies == 2

\* The references the extractor handles after construction.
ActivityRefs == {RefPhoto, RefLogo, RefRaise}

\* What a caller may store in a record it was given.
CallerFields == {"total_images", "failed_extractions"}

CallerValues == {0, 7}

\* Variant: the dictionary itself is handed out.
GetExtractionStatsAlias(heap, self) == [heap |-> heap, ref |-> self]

\* return self.stats.copy(): a new dictionary with the same items.
get_extraction_stats(heap, self) ==
    [heap |-> Append(heap, heap[self]), ref |-> Len(heap) + 1]

InitStatsObjects ==
    /\ objs = [heap |-> <<InitStats>>, self |-> 1, returned |-> <<>>,
               expect_self |-> InitStats, expect_returned |-> <<>>, activity |-> 0]
    /\ session = NoSession
    /\ pdf = DocMissing
    /\ filter_logos = TRUE
    /\ has_callback = FALSE
    /\ callback_fails_at = 0
    /\ callback_exception = "none"
    /\ pc = "idle"
    /\ page_index = 0
    /\ img_index = 0
    /\ stats = InitStats
    /\ extracted_images = <<>>
    /\ files = NoFiles
    /\ progress = <<>>
    /\ log = <<>>
    /\ error = NoError
    /\ visited = <<>>
    /\ probe = NoBytes
    /\ answer = "none"
    /\ calls = 0
    /\ optimized_images = <<>>
    /\ app = NoApp

\* The extractor handles one more reference: the counter updates of
\* _extract_single_image and _extract_images_from_page on self.stats.
Activity ==
    /\ objs.activity < MaxActivity
    /\ \E ref \in ActivityRefs :
         LET outcome == SingleImageOutcome(ref, TRUE)
         IN objs' = [objs EXCEPT
                       !.heap[objs.self] = StatsAfterImage(@, ref, outcome),
                       !.expect_self = StatsAfterImage(@, ref, outcome),
                       !.activity = @ + 1]
    /\ UNCHANGED <<probe, answer, runvars, calls, optimized_images, app, session>>

\* stats = extractor.get_extraction_stats()
GetExtractionStats ==
    /\ Len(objs.returned) < MaxCopies
    /\ LET r == get_extraction_stats(objs.heap, objs.self)
       IN objs' = [objs EXCEPT
                     !.heap = r.heap,
                     !.returned = Append(@, r.ref),
                     !.expect_returned = Append(@, objs.heap[objs.self])]
    /\ UNCHANGED <<probe, answer, runvars, calls, optimized_images, app, session>>

\* A caller stores a value in a record it was given.
CallerChangesRecord ==
    /\ \E i \in DOMAIN objs.returned, f \in CallerFields, v \in CallerValues :
         objs' = [objs EXCEPT
                    !.heap[objs.returned[i]][f] = v,
                    !.expect_returned[i][f] = v]
    /\ UNCHANGED <<probe, answer, runvars, calls, optimized_images, app, session>>

NextStats ==
    \/ Activity
    \/ GetExtractionStats
    \/ CallerChangesRecord

SpecStats == InitStatsObjects /\ [][NextStats]_vars

(***************************************************************************)
(* app.process_uploaded_file, upload after upload.  app.upload_folder is   *)
(* the upload folder (file name -> document), files the output folder.     *)
(* Texts are sequences of strings: <<"a:", "b">> stands for "a: b".        *)
(***************************************************************************)
MaxUploads == 3

ALLOWED_EXTENSIONS == {"pdf"}

MAX_FILE_SIZE_MB == 50

\* config.ERROR_MESSAGE without its leading sign, which is not ASCII.
ERROR_MESSAGE == "An error occurred while processing the PDF."

UNEXPECTED_MESSAGE == "An unexpected error occurred during processing."

\* A file name: ext is the text behind the last dot, "" without a dot.
Name(stem, ext) == [stem |-> stem, ext |-> ext]

\* filename.lower(), as far as the text behind the last dot goes.
LowerName(name) ==
    [name EXCEPT !.ext = CASE @ = "PDF" -> "pdf"
                           [] @ = "Pdf" -> "pdf"
                           [] @ = "TXT" -> "txt"
                           [] OTHER -> @]

\* any(filename.lower().endswith(f".{ext}") for ext in ALLOWED_EXTENSIONS)
is_valid_file_type(name) == LowerName(name).ext \in ALLOWED_EXTENSIONS

\* file_size <= MAX_FILE_SIZE_MB * 1024 * 1024
is_valid_file_size(size) == size <= MAX_FILE_SIZE_MB * 1024 * 1024

\* The uploaded file: its name and size, the document in it, and whether
\* the upload folder takes the file.
Upload(name, size, doc, write_ok) ==
    [name |-> name, size |-> size, doc |-> doc, write_ok |-> write_ok]

DocZeroPages == Pdf("ok", <<>>)

\* A file fitz opens that is not a PDF.
DocNotPdf == Pdf("not_pdf", <<Page("ok", <<RefPhoto>>)>>)

AppPdfs ==
    {DocPhoto, DocLogoPhoto, DocNoImages, DocBrokenPage, DocBadWrite, DocCorrupt,
     DocZeroPages, DocNotPdf}

AppUploads ==
    {Upload(Name("scan", "pdf"), 2048, d, TRUE) : d \in AppPdfs}
    \cup {Upload(Name("SCAN", "PDF"), MAX_FILE_SIZE_MB * 1024 * 1024, DocPhoto, TRUE),
          Upload(Name("notes", "txt"), 2048, DocPhoto, TRUE),
          Upload(Name("scanpdf", ""), 2048, DocPhoto, TRUE),
          Upload(Name("big", "pdf"), MAX_FILE_SIZE_MB * 1024 * 1024 + 1, DocPhoto, TRUE),
          Upload(Name("big", "TXT"), MAX_FILE_SIZE_MB * 1024 * 1024 + 1, DocPhoto, TRUE),
          Upload(Name("scan", "pdf"), 2048, DocPhoto, FALSE)}

NoUpload == Upload(Name("", ""), 0, DocMissing, FALSE)

\* What open(file_path, "wb") leaves when nothing is written.
EmptyFile == DocCorrupt

\* What the PDF library may find in a file that holds the first bytes of an
\* upload, f.write having raised part-way: nothing it can open, or the
\* document up to one of its pages, the whole document where the bytes
\* that are missing come after it.
PartialUploads(doc) ==
    {EmptyFile} \cup {Pdf(doc.status, SubSeq(doc.pages, 1, j)) : j \in 0..Len(doc.pages)}

\* An exception with str(e) = reason; "none" where there is none, "invalid"
\* for the (False, error_message) of validate_pdf_file.
Exc(type, reason) == [type |-> type, reason |-> reason]

NoAppError == Exc("none", <<>>)

\* What st.error, st.success, st.warning last showed.
Message(kind, text, count) == [kind |-> kind, text |-> text, count |-> count]

NoMessage == Message("none", <<>>, 0)

\* Variant: the reason alone is shown.
RenderReasonOnly(reason) == Message("error", reason, 0)

\* st.error(f"{ERROR_MESSAGE} {error}"), reason the error argument.
render_error_message(reason) == Message("error", <<ERROR_MESSAGE>> \o reason, 0)

\* st.warning(WARNING_MESSAGE) or st.success(SUCCESS_MESSAGE.format(count=count))
render_extraction_results(image_paths) ==
    IF image_paths = <<>>
    THEN Message("warning", <<>>, 0)
    ELSE Message("success", <<>>, Len(image_paths))

\* What extract_images_with_progress returned.
Result(returned, image_paths, st) ==
    [returned |-> returned, image_paths |-> image_paths, stats |-> st]

NoResult == Result(FALSE, <<>>, InitStats)

\* The latest run that returned: its document, setting, output and result.
NoRun == [ran |-> FALSE, pdf |-> DocMissing, filter |-> TRUE, files |-> NoFiles,
          result |-> NoResult]

\* save_uploaded_file, lines 30-48: the checks, then the write.
SaveOutcome(u) ==
    CASE ~is_valid_file_type(u.name) -> "invalid_type"
      [] is_valid_file_type(u.name) /\ ~is_valid_file_size(u.size) -> "too_large"
      [] is_valid_file_type(u.name) /\ is_valid_file_size(u.size) /\ ~u.write_ok
           -> "write_failed"
      [] OTHER -> "saved"

\* What is raised inside the try of save_uploaded_file.
SaveInnerError(outcome) ==
    CASE outcome = "invalid_type" ->
           Exc("FileValidationError", <<"Invalid file type. Only PDF files are allowed.">>)
      [] outcome = "too_large" ->
           Exc("FileValidationError", <<"File too large. Maximum size is 50MB.">>)
      [] OTHER -> Exc("OSError", <<"write">>)

\* Lines 50-52: except Exception as e: raise FileOperationError(f"... {e}")
SaveError(outcome) ==
    Exc("FileOperationError",
        <<"Failed to save uploaded file:">> \o SaveInnerError(outcome).reason)

\* validate_pdf_file(file_path) on the document in the file.
validate_pdf_file(doc) ==
    CASE doc.status = "missing" ->
           [is_valid |-> FALSE, error_message |-> <<"File does not exist">>]
      [] doc.status = "corrupt" ->
           [is_valid |-> FALSE, error_message |-> <<"Error validating PDF:", "open_failed">>]
      [] doc.status \notin {"missing", "corrupt"} /\ Len(doc.pages) = 0 ->
           [is_valid |-> FALSE, error_message |-> <<"PDF file is empty">>]
      [] doc.status = "not_pdf" /\ Len(doc.pages) > 0 ->
           [is_valid |-> FALSE, error_message |-> <<"File is not a valid PDF">>]
      [] OTHER -> [is_valid |-> TRUE, error_message |-> <<>>]

\* Variant: the folder is left as it is.
ClearOutputFolderKeepsFiles(fs) == fs

\* clear_output_folder: every file of the folder is unlinked.
clear_output_folder(fs) == NoFiles

\* Variant: one extractor serves every run.
SharedExtractor == [stats |-> stats, extracted_images |-> extracted_images]

\* extractor = PDFImageExtractor(output_folder)
NewExtractor == [stats |-> InitStats, extracted_images |-> <<>>]

\* A file an earlier session left in the output folder.
StaleFolder == WriteFile(NoFiles, ImageFilename(0, 0, "jpeg"), RefLogo.image)

InitApp ==
    /\ app = [pc |-> "idle", upload |-> NoUpload, uploads |-> 0, upload_folder |-> NoFiles,
              file_path |-> Name("", ""), error |-> NoAppError, shown |-> NoMessage,
              result |-> NoResult, last |-> NoRun, found |-> NoFiles]
    /\ files \in {NoFiles, StaleFolder}
    /\ pdf = DocMissing
    /\ filter_logos = TRUE
    /\ has_callback = TRUE
    /\ callback_fails_at = 0
    /\ callback_exception = "none"
    /\ pc = "idle"
    /\ page_index = 0
    /\ img_index = 0
    /\ stats = InitStats
    /\ extracted_images = <<>>
    /\ progress = <<>>
    /\ log = <<>>
    /\ error = NoError
    /\ visited = <<>>
    /\ probe = NoBytes
    /\ answer = "none"
    /\ calls = 0
    /\ optimized_images = <<>>
    /\ objs = NoObjs
    /\ session = NoSession

\* main, lines 33-40: a file is uploaded with the sidebar's settings and
\* process_uploaded_file is entered.  The run before is over: its result
\* is kept in app.last if it returned, its extractor is out of reach.
\* app.found keeps the output folder as this call finds it.
UploadFile ==
    /\ app.pc \in {"idle", "done", "cleaned"}
    /\ app.uploads < MaxUploads
    /\ \E u \in AppUploads :
         app' = [app EXCEPT !.pc = "save", !.upload = u, !.uploads = @ + 1,
                            !.file_path = Name("", ""), !.error = NoAppError,
                            !.shown = NoMessage, !.result = NoResult,
                            !.found = files,
                            !.last = IF app.result.returned
                                     THEN [ran |-> TRUE, pdf |-> pdf, filter |-> filter_logos,
                                           files |-> files, result |-> app.result]
                                     ELSE @]
    /\ filter_logos' \in BOOLEAN
    /\ pdf' = DocMissing
    /\ pc' = "idle"
    /\ page_index' = 0
    /\ img_index' = 0
    /\ progress' = <<>>
    /\ log' = <<>>
    /\ error' = NoError
    /\ visited' = <<>>
    /\ UNCHANGED <<has_callback, callback_fails_at, callback_exception, stats, extracted_images, files, probe, answer, calls, optimized_images, objs, session>>

\* app.py line 62 with utils.py lines 16-52, and the handlers of lines 99-102.
SaveUploadedFile ==
    /\ app.pc = "save"
    /\ LET u == app.upload
           outcome == SaveOutcome(u)
       IN CASE outcome = "saved" ->
                 app' = [app EXCEPT !.pc = "validate",
                                    !.upload_folder = WriteFile(@, u.name, u.doc),
                                    !.file_path = u.name]
            [] outcome = "write_failed" ->
                 \E left \in {app.upload_folder}
                               \cup {WriteFile(app.upload_folder, u.name, d) :
                                        d \in PartialUploads(u.doc)} :
                   app' = [app EXCEPT !.pc = "done",
                                      !.upload_folder = left,
                                      !.error = SaveError(outcome),
                                      !.shown = render_error_message(SaveError(outcome).reason)]
            [] OTHER ->
                 app' = [app EXCEPT !.pc = "done",
                                    !.error = SaveError(outcome),
                                    !.shown = render_error_message(SaveError(outcome).reason)]
    /\ UNCHANGED <<probe, answer, runvars, calls, optimized_images, objs, session>>

\* app.py lines 65-68 with utils.py lines 149-179.
ValidatePdfFile ==
    /\ app.pc = "validate"
    /\ LET v == validate_pdf_file(app.upload_folder[app.file_path])
       IN IF v.is_valid
          THEN app' = [app EXCEPT !.pc = "clear"]
          ELSE app' = [app EXCEPT !.pc = "done",
                                  !.error = Exc("invalid", v.error_message),
                                  !.shown = render_error_message(v.error_message)]
    /\ UNCHANGED <<probe, answer, runvars, calls, optimized_images, objs, session>>

\* app.py line 71 with utils.py lines 54-73: the folder is cleared, or
\* mkdir, iterdir or an unlink raises, with the files not yet unlinked
\* still there.
ClearOutputFolder ==
    /\ app.pc = "clear"
    /\ \/ /\ files' = clear_output_folder(files)
          /\ app' = [app EXCEPT !.pc = "extract"]
       \/ \E kept \in SUBSET (DOMAIN files) :
            LET e == Exc("FileOperationError", <<"Failed to clear output folder:", "unlink">>)
            IN /\ files' = [n \in kept |-> files[n]]
               /\ app' = [app EXCEPT !.pc = "done",
                                     !.error = e,
                                     !.shown = render_error_message(e.reason)]
    /\ UNCHANGED <<pdf, filter_logos, has_callback, callback_fails_at, callback_exception, pc, page_index, img_index, stats,
                   extracted_images, progress, log, error, visited, probe, answer, calls, optimized_images, objs, session>>

\* app.py lines 78-88 and extract.py line 308: a new extractor, called on the
\* saved file with the progress callback and the filter_logos setting.
ExtractImagesWithProgress ==
    /\ app.pc = "extract"
    /\ pc = "idle"
    /\ pc' = "start"
    /\ pdf' = app.upload_folder[app.file_path]
    /\ has_callback' = TRUE
    /\ stats' = NewExtractor.stats
    /\ extracted_images' = NewExtractor.extracted_images
    /\ UNCHANGED <<callback_fails_at, callback_exception, filter_logos, page_index, img_index, files, progress, log,
                   error, visited, probe, answer, calls, optimized_images, app, objs, session>>

\* extract.py lines 309-311: the call returned; stats is the extractor's
\* snapshot.
ExtractionReturns ==
    /\ app.pc = "extract"
    /\ pc = "returned"
    /\ app' = [app EXCEPT !.pc = "render",
                          !.result = Result(TRUE, extracted_images, stats)]
    /\ UNCHANGED <<probe, answer, runvars, calls, optimized_images, objs, session>>

\* app.py lines 103-104: the call raised PDFProcessingError.
ExtractionRaises ==
    /\ app.pc = "extract"
    /\ pc = "raised"
    /\ LET e == Exc(error.type, <<"Failed to process PDF:", error.cause>>)
       IN app' = [app EXCEPT !.pc = "done",
                             !.error = e,
                             !.shown = render_error_message(e.reason)]
    /\ UNCHANGED <<probe, answer, runvars, calls, optimized_images, objs, session>>

\* app.py lines 94-97 and 105-108: the results are rendered, or rendering
\* raises an exception that is none of the application's own.
RenderResults ==
    /\ app.pc = "render"
    /\ \/ app' = [app EXCEPT !.pc = "done",
                             !.shown = render_extraction_results(app.result.image_paths)]
       \/ app' = [app EXCEPT !.pc = "done",
                             !.error = Exc("Exception", <<"render">>),
                             !.shown = render_error_message(<<UNEXPECTED_MESSAGE>>)]
    /\ UNCHANGED <<probe, answer, runvars, calls, optimized_images, objs, session>>

\* utils.cleanup_temp_files, called between two uploads, any number of
\* times: shutil.rmtree of the upload folder, then of the output folder.
\* Where an rmtree raises, some files of its folder stay and the folder
\* after it is not touched; a warning is logged.  The result of the run
\* before goes to app.last as it does at the next upload.
CleanupTempFiles ==
    /\ app.pc \in {"idle", "done", "cleaned"}
    /\ \E up \in SUBSET (DOMAIN app.upload_folder), out \in SUBSET (DOMAIN files) :
         /\ up # {} => out = DOMAIN files
         /\ files' = [n \in out |-> files[n]]
         /\ app' = [app EXCEPT !.pc = "cleaned",
                               !.upload_folder = [n \in up |-> @[n]],
                               !.result = NoResult,
                               !.last = IF app.result.returned
                                        THEN [ran |-> TRUE, pdf |-> pdf, filter |-> filter_logos,
                                              files |-> files, result |-> app.result]
                                        ELSE @]
    /\ UNCHANGED <<pdf, filter_logos, has_callback, callback_fails_at, callback_exception, pc, page_index, img_index,
                   stats, extracted_images, progress, log, error, visited, probe, answer, calls, optimized_images,
                   objs, session>>

NextApp ==
    \/ UploadFile
    \/ CleanupTempFiles
    \/ SaveUploadedFile
    \/ ValidatePdfFile
    \/ ClearOutputFolder
    \/ ExtractImagesWithProgress
    \/ OpenPdf
    \/ ProgressCallback
    \/ ExtractImagesFromPage
    \/ ExtractSingleImage
    \/ ReturnImages
    \/ ExtractionReturns
    \/ ExtractionRaises
    \/ RenderResults

SpecApp == InitApp /\ [][NextApp]_vars

(***************************************************************************)
(* The selection gallery of one UI session.  Every interaction runs the    *)
(* script again: the uploaded file is extracted and, if image paths came   *)
(* back, render_image_selection_gallery is run on them.  An extraction is  *)
(* taken by the number n of image paths it returns, which is the run's     *)
(* own: a run whose process_uploaded_file shows an error, or finds no      *)
(* image, has n = 0 and no gallery, whatever the run before displayed.     *)
(***************************************************************************)
MaxImages == 3

\* What the checkboxes select_0 .. select_{n-1} may return in a run.
Checkboxes(n) == [0..(n - 1) -> BOOLEAN]

\* Lines 289-305: index i is added where its checkbox is set and discarded
\* where it is not, for the indices of image_paths.
CheckboxLoop(selected, n, boxes) ==
    (selected \cup {i \in 0..(n - 1) : boxes[i]}) \ {i \in 0..(n - 1) : ~boxes[i]}

\* download_selected_images_quick: the images put into the ZIP file that is
\* offered for download; where the ZIP file cannot be written the handler
\* of lines 556-558 shows an error and the ZIP offered before stays.
download_selected_images_quick(n, selected_indices, zipped, zip_ok) ==
    IF zip_ok THEN {idx \in selected_indices : idx < n} ELSE zipped

\* One run of the script with n image paths, the button pressed, the
\* checkbox values and whether a ZIP file can be written.  Without image paths render_extraction_results returns
\* before the gallery.  At Select All and Clear Selection the run sets
\* selected_images and ends in st.rerun() (lines 272, 277): the count and
\* the checkboxes of the run before stay on the page and another run of
\* the script is due.
render_image_selection_gallery(sess, n, pressed, boxes, zip_ok) ==
    LET before == IF sess.initialised THEN sess.selected_images ELSE {}
    IN CASE n = 0 ->
              [sess EXCEPT !.displayed = FALSE, !.image_paths = 0, !.rerun = FALSE]
         [] n # 0 /\ pressed = "select_all" ->
              [sess EXCEPT !.initialised = TRUE, !.selected_images = 0..(n - 1),
                           !.rerun = TRUE]
         [] n # 0 /\ pressed = "clear_selection" ->
              [sess EXCEPT !.initialised = TRUE, !.selected_images = {},
                           !.rerun = TRUE]
         [] OTHER ->
              [displayed |-> TRUE,
               image_paths |-> n,
               initialised |-> TRUE,
               selected_images |-> CheckboxLoop(before, n, boxes),
               shown |-> <<Cardinality(before), n>>,
               zipped |-> IF pressed = "download_selected"
                          THEN download_selected_images_quick(n, before, sess.zipped, zip_ok)
                          ELSE sess.zipped,
               rerun |-> FALSE]

InitUI ==
    /\ session = [displayed |-> FALSE, image_paths |-> 0, initialised |-> FALSE,
                  selected_images |-> {}, shown |-> <<0, 0>>, zipped |-> {},
                  rerun |-> FALSE]
    /\ pdf = DocMissing
    /\ filter_logos = TRUE
    /\ has_callback = FALSE
    /\ callback_fails_at = 0
    /\ callback_exception = "none"
    /\ pc = "idle"
    /\ page_index = 0
    /\ img_index = 0
    /\ stats = InitStats
    /\ extracted_images = <<>>
    /\ files = NoFiles
    /\ progress = <<>>
    /\ log = <<>>
    /\ error = NoError
    /\ visited = <<>>
    /\ probe = NoBytes
    /\ answer = "none"
    /\ calls = 0
    /\ optimized_images = <<>>
    /\ app = NoApp
    /\ objs = NoObjs

\* A file is uploaded and its extraction returns n image paths.  In the
\* actions below the button or checkbox is one of the page the run before
\* displayed; the run it starts extracts again and has its own n.
UploadAndExtract ==
    /\ ~session.rerun
    /\ \E n \in 0..MaxImages : \E boxes \in Checkboxes(n) :
         session' = render_image_selection_gallery(session, n, "none", boxes, TRUE)
    /\ UNCHANGED <<probe, answer, runvars, calls, optimized_images, app, objs>>

\* The Select All button: the run that ends in st.rerun().
SelectAll ==
    /\ session.displayed
    /\ ~session.rerun
    /\ \E n \in 0..MaxImages : \E boxes \in Checkboxes(n) :
         session' = render_image_selection_gallery(session, n, "select_all", boxes, TRUE)
    /\ UNCHANGED <<probe, answer, runvars, calls, optimized_images, app, objs>>

\* The Clear Selection button: the run that ends in st.rerun().
ClearSelection ==
    /\ session.displayed
    /\ ~session.rerun
    /\ \E n \in 0..MaxImages : \E boxes \in Checkboxes(n) :
         session' = render_image_selection_gallery(session, n, "clear_selection", boxes, TRUE)
    /\ UNCHANGED <<probe, answer, runvars, calls, optimized_images, app, objs>>

\* The run of the script that st.rerun() asked for: no button is pressed;
\* if image paths come back the count is shown and the checkboxes are
\* evaluated, and if not the page has no gallery.
ScriptRerun ==
    /\ session.displayed
    /\ session.rerun
    /\ \E n \in 0..MaxImages : \E boxes \in Checkboxes(n) :
         session' = render_image_selection_gallery(session, n, "none", boxes, TRUE)
    /\ UNCHANGED <<probe, answer, runvars, calls, optimized_images, app, objs>>

\* A checkbox is changed.
ChangeCheckbox ==
    /\ session.displayed
    /\ ~session.rerun
    /\ \E n \in 0..MaxImages : \E boxes \in Checkboxes(n) :
         session' = render_image_selection_gallery(session, n, "none", boxes, TRUE)
    /\ UNCHANGED <<probe, answer, runvars, calls, optimized_images, app, objs>>

\* The Download Selected button, there when the selected count is not 0.
DownloadSelected ==
    /\ session.displayed
    /\ ~session.rerun
    /\ session.shown[1] > 0
    /\ session.selected_images # {}
    /\ \E n \in 0..MaxImages : \E boxes \in Checkboxes(n), zip_ok \in BOOLEAN :
         session' = render_image_selection_gallery(session, n, "download_selected",
                                                   boxes, zip_ok)
    /\ UNCHANGED <<probe, answer, runvars, calls, optimized_images, app, objs>>

NextUI ==
    \/ UploadAndExtract
    \/ SelectAll
    \/ ClearSelection
    \/ ScriptRerun
    \/ ChangeCheckbox
    \/ DownloadSelected

SpecUI == InitUI /\ [][NextUI]_vars

(***************************************************************************)
(* Properties                                                              *)
(***************************************************************************)
Range(seq) == {seq[i] : i \in DOMAIN seq}

\* The positions <<page number, image number>> of the references of page k.
PositionsOf(k) == {<<k, m>> : m \in 1..Len(pdf.pages[k].images)}

AllPositions == UNION {PositionsOf(k) : k \in DOMAIN pdf.pages}

RefAt(pos) == pdf.pages[pos[1]].images[pos[2]]

\* The reference a file name page{N}_img{M}.{ext} comes from.
RefOfName(name) == RefAt(<<name.page, name.img>>)

\* _extract_images_from_page has returned for page k with every reference
\* of the page handled.
PageProcessed(k) == k <= page_index /\ PositionsOf(k) \subseteq Range(visited)

\* The counters of the statistics record other than total_pages.
Counters(st) ==
    <<st.total_images, st.successful_extractions, st.failed_extractions,
      st.filtered_logos, st.total_size_bytes>>

\* C1: at every point of a run, successful_extractions + failed_extractions
\* + filtered_logos <= total_images, the 'images found' counter.
C1_CountersWithinImagesFound ==
    stats.successful_extractions + stats.failed_extractions + stats.filtered_logos
        <= stats.total_images

\* A 3-page document that opens, every page of which loads and enumerates,
\* embedding exactly the 50x50 opaque PNG and the 800x600 JPEG.
IsScenarioPdf ==
    /\ pdf.status = "ok"
    /\ Len(pdf.pages) = 3
    /\ \A k \in DOMAIN pdf.pages : pdf.pages[k].kind = "ok"
    /\ Cardinality(AllPositions) = 2
    /\ {RefAt(pos) : pos \in AllPositions} = {RefLogo, RefPhoto}

\* C2: with logo filtering on, the run over the scenario document ends with
\* total_pages = 3, total_images = 2, successful_extractions = 1,
\* failed_extractions = 0 and filtered_logos = 1.
C2_ScenarioStats ==
    (pc = "returned" /\ filter_logos /\ IsScenarioPdf)
        => /\ stats.total_pages = 3
           /\ stats.total_images = 2
           /\ stats.successful_extractions = 1
           /\ stats.failed_extractions = 0
           /\ stats.filtered_logos = 1

\* Fetching the bytes of the reference raises, or its file is written and
\* the write raises.
Fails(ref) ==
    \/ ref.fetch = "raise"
    \/ /\ ref.fetch = "ok"
       /\ ~ref.write_ok
       /\ Lower(ref.ext) \in SUPPORTED_IMAGE_FORMATS
       /\ ref.image.len >= MIN_IMAGE_SIZE_KB * 1024
       /\ ~(filter_logos /\ _is_logo_like(ref.image))

\* The image loop goes on to the next reference, or to the next page after
\* the last reference of the page.
GoesOn ==
    /\ error' = NoError
    /\ IF img_index + 1 < Len(CurrentPage.images)
       THEN pc' = "image" /\ page_index' = page_index /\ img_index' = img_index + 1
       ELSE pc' = "loop" /\ page_index' = page_index + 1

C3_Step ==
    (pc = "image" /\ Fails(CurrentRef))
        => /\ stats' = [stats EXCEPT !.failed_extractions = @ + 1]
           /\ extracted_images' = extracted_images
           /\ GoesOn

\* A run ends by raising only where the document does not open or a page
\* does not load, with every reference of the pages before handled; a run
\* that returns has handled every reference of the document.
C3_RunGoesOn ==
    /\ pc = "returned" => Range(visited) = AllPositions
    /\ pc = "raised" =>
         /\ \/ pdf.status # "ok"
            \/ (page_index < NumPages /\ CurrentPage.kind = "load_error")
         /\ \A k \in 1..page_index : PositionsOf(k) \subseteq Range(visited)

\* C3: a failing image reference adds exactly 1 to failed_extractions, the
\* remaining references of the page and the later pages are still handled,
\* and the failure does not make extract_images_from_pdf raise.
C3_ImageFailureIsCounted == [][C3_Step]_vars /\ []C3_RunGoesOn

\* A run that returned after a failing reference on page 1, with an image
\* saved from a later page, a page without images lying between them.
C3_Witness ==
    /\ pc = "returned"
    /\ stats.failed_extractions = 1
    /\ \E pos \in AllPositions :
         /\ pos[1] = 1
         /\ Fails(RefAt(pos))
         /\ \E n \in Range(extracted_images) : n.page = 3

\* C4: when the path does not exist or the document cannot be opened, the
\* run raises PDFProcessingError with no callback made, no file written, the
\* list of extracted images and every counter as initially.
C4_OpenFailureRaisesFirst ==
    pdf.status \in {"missing", "corrupt"}
        => /\ pc \in {"start", "raised"}
           /\ pc = "raised" => error.type = "PDFProcessingError"
           /\ progress = <<>>
           /\ files = NoFiles
           /\ extracted_images = <<>>
           /\ stats = InitStats
           /\ visited = <<>>

C4_Witness == pc = "raised" /\ pdf.status = "corrupt" /\ error.cause = "open_failed"

\* C5: an image of fewer than MIN_IMAGE_SIZE_KB * 1024 bytes is never in
\* the output folder nor in the list of extracted images, with logo
\* filtering on or off.
C5_SmallImagesNeverWritten ==
    /\ \A n \in DOMAIN files :
         RefOfName(n).image.len >= MIN_IMAGE_SIZE_KB * 1024
    /\ \A n \in Range(extracted_images) :
         RefOfName(n).image.len >= MIN_IMAGE_SIZE_KB * 1024

\* A run without logo filtering that returned after handling the half-KiB
\* PNG and saving another image.
C5_Witness ==
    /\ pc = "returned"
    /\ ~filter_logos
    /\ \E pos \in Range(visited) : RefAt(pos) = RefTiny
    /\ extracted_images # <<>>

\* C6: an image whose lower-cased format is not in SUPPORTED_IMAGE_FORMATS
\* is never in the output folder, with logo filtering on or off and whether
\* or not it is logo-like.
C6_UnsupportedNeverWritten ==
    \A pos \in AllPositions :
        (RefAt(pos).fetch = "ok" /\ Lower(RefAt(pos).ext) \notin SUPPORTED_IMAGE_FORMATS)
            => /\ \A n \in DOMAIN files : <<n.page, n.img>> # pos
               /\ \A n \in Range(extracted_images) : <<n.page, n.img>> # pos

\* A run without logo filtering that returned after handling the JPEG 2000
\* image and saving another image.
C6_Witness ==
    /\ pc = "returned"
    /\ ~filter_logos
    /\ RefJpx \in {RefAt(pos) : pos \in Range(visited)}
    /\ extracted_images # <<>>

C7_Step ==
    (pc \in {"loop", "page"} /\ page_index < NumPages /\ CurrentPage = Page("ok", <<>>))
        => /\ Counters(stats') = Counters(stats)
           /\ extracted_images' = extracted_images
           /\ files' = files
           /\ stats'.total_pages = NumPages

\* C7: handling a page with no image reference leaves total_images,
\* successful_extractions, failed_extractions, filtered_logos, total_size_mb
\* and the list of extracted images as they were; total_pages counts it.
C7_EmptyPageChangesNothing == [][C7_Step]_vars

\* A run that returned over a document with a page without images after a
\* page from which an image was saved.
C7_Witness ==
    /\ pc = "returned"
    /\ \E k \in DOMAIN pdf.pages :
         /\ pdf.pages[k] = Page("ok", <<>>)
         /\ \E n \in Range(extracted_images) : n.page < k

\* The arguments of the call of the callback made in this step.
LastCall == progress'[Len(progress')]

\* C8 as stated: when the callback is called with (k, total), the images of
\* pages 1..k have already been processed.
C8_CallbackAfterPage ==
    [][progress' # progress => \A k \in 1..LastCall[1] : PageProcessed(k)']_vars

C8_Step ==
    progress' # progress
        => /\ LastCall[2] = NumPages
           /\ LastCall[1] \in 1..NumPages
           /\ \A k \in 1..(LastCall[1] - 1) : PageProcessed(k)'
           /\ ~(LastCall[1] <= page_index')
           /\ PositionsOf(LastCall[1]) \cap Range(visited') = {}

\* C8 as amended: the callback is invoked before each page; when it is called
\* with (k, total), total is the page count, the images of pages 1..k-1 have
\* been processed and page k has not been touched.
C8_CallbackBeforePage == [][C8_Step]_vars

\* The callback has just been called for page 2 of a document whose page 1
\* gave a saved image and whose page 2 has images too.
C8_Witness ==
    /\ pc = "page"
    /\ Len(progress) = 2
    /\ \E n \in Range(extracted_images) : n.page = 1
    /\ PositionsOf(2) # {}

\* C9: a page that fails to load or to enumerate is logged and skipped: no
\* counter changes, the run goes on with the next page and does not raise.
C9_PageErrorIsSkipped ==
    [][(pc = "page" /\ CurrentPage.kind \in {"load_error", "enum_error"})
          => /\ pc' = "loop"
             /\ page_index' = page_index + 1
             /\ error' = NoError
             /\ stats' = stats
             /\ Len(log') = Len(log) + 1]_vars

\* C10: for a decodable image, _is_logo_like answers true exactly when
\* width < 100 or height < 100, or 0.8 <= width/height <= 1.2, or the mode is
\* RGBA, LA or P, or the length is below 10 * 1024.
C10_LogoRule ==
    (answer # "none" /\ probe.decodable)
        => (answer = "logo"
              <=> \/ probe.width < 100
                  \/ probe.height < 100
                  \/ (8 * probe.height <= 10 * probe.width
                        /\ 10 * probe.width <= 12 * probe.height)
                  \/ probe.mode \in {"RGBA", "LA", "P"}
                  \/ probe.len < 10 * 1024)

\* An opaque 120x100 image of 20 KiB, a logo by its ratio of exactly 1.2.
C10_Witness ==
    /\ answer = "logo"
    /\ probe = Bytes(20480, TRUE, 120, 100, "RGB")

\* The file name the code gives the reference at a position.
NameOf(pos) == [page |-> pos[1], img |-> pos[2], ext |-> Lower(RefAt(pos).ext)]

\* The reference is fetched, in a supported format, large enough and its
\* file can be written.
Savable(ref) ==
    /\ ref.fetch = "ok"
    /\ Lower(ref.ext) \in SUPPORTED_IMAGE_FORMATS
    /\ ref.image.len >= MIN_IMAGE_SIZE_KB * 1024
    /\ ref.write_ok

\* The reference is savable and not turned away by the logo filter.
Accepted(ref) == Savable(ref) /\ ~(filter_logos /\ _is_logo_like(ref.image))

\* The names of the accepted references handled so far, in the order handled.
AcceptedNames ==
    LET acc == SelectSeq(visited, LAMBDA pos : Accepted(RefAt(pos)))
    IN [i \in 1..Len(acc) |-> NameOf(acc[i])]

\* C13: every accepted image is in the output folder under
\* page{N}_img{M}.{ext}, N and M the 1-based page number and position in the
\* page's list, ext the lower-cased format, holding exactly the raw bytes;
\* the list of extracted images holds these names in the order handled.
C13_AcceptedImagesAreNamedAndWritten ==
    /\ extracted_images = AcceptedNames
    /\ \A pos \in Range(visited) :
         Accepted(RefAt(pos))
             => /\ NameOf(pos) \in DOMAIN files
                /\ files[NameOf(pos)] = RefAt(pos).image

\* A run without logo filtering that returned with the alpha PNG, reported
\* as "PNG", saved as page2_img2.png.
C13_Witness ==
    /\ pc = "returned"
    /\ [page |-> 2, img |-> 2, ext |-> "png"] \in DOMAIN files
    /\ files[[page |-> 2, img |-> 2, ext |-> "png"]] = RefAlpha.image
    /\ extracted_images # <<>>
    /\ extracted_images[Len(extracted_images)] = [page |-> 2, img |-> 2, ext |-> "png"]

\* C18: with filter_logos false, filtered_logos stays 0 and every image in a
\* supported format, large enough and writable is saved, logo-like or not.
C18_FilterOffSavesLogos ==
    ~filter_logos
        => /\ stats.filtered_logos = 0
           /\ \A pos \in Range(visited) :
                Savable(RefAt(pos))
                    => /\ NameOf(pos) \in DOMAIN files
                       /\ files[NameOf(pos)] = RefAt(pos).image
                       /\ NameOf(pos) \in Range(extracted_images)

\* A run without logo filtering that returned with the 50x50 PNG and the
\* alpha PNG both saved.
C18_Witness ==
    /\ pc = "returned"
    /\ ~filter_logos
    /\ stats.successful_extractions = 2
    /\ {RefAt(pos) : pos \in Range(visited)} = {RefLogo, RefAlpha}

C19_Together ==
    /\ Len(extracted_images) = stats.successful_extractions
    /\ stats.successful_extractions = stats.total_images

C19_Step ==
    (\/ extracted_images' # extracted_images
     \/ stats'.successful_extractions # stats.successful_extractions
     \/ stats'.total_images # stats.total_images)
        => /\ Len(extracted_images') = Len(extracted_images) + 1
           /\ stats'.successful_extractions = stats.successful_extractions + 1
           /\ stats'.total_images = stats.total_images + 1
           /\ pc = "image"
           /\ NameOf(<<page_index + 1, img_index + 1>>) \in DOMAIN files'
           /\ files'[NameOf(<<page_index + 1, img_index + 1>>)] = CurrentRef.image

\* C19: on a fresh extractor the length of extracted_images,
\* successful_extractions and total_images are equal at every point of a
\* run, and they only grow together, by one per written image.
C19_ListAndCountersAgree == []C19_Together /\ [][C19_Step]_vars

\* A run that returned with two images saved.
C19_Witness ==
    /\ pc = "returned"
    /\ Len(extracted_images) = 2
    /\ stats.total_images = 2

\* The three outcome counters.
Outcomes(st) ==
    <<st.successful_extractions, st.failed_extractions, st.filtered_logos>>

OutcomeSum(st) ==
    st.successful_extractions + st.failed_extractions + st.filtered_logos

\* The reference gives no data, or an unsupported format, or too few bytes.
Skipped(ref) ==
    \/ ref.fetch = "none"
    \/ /\ ref.fetch = "ok"
       /\ \/ Lower(ref.ext) \notin SUPPORTED_IMAGE_FORMATS
          \/ ref.image.len < MIN_IMAGE_SIZE_KB * 1024

C20_Step ==
    /\ pc = "image" =>
         /\ \/ Outcomes(stats') = Outcomes(stats)
            \/ /\ OutcomeSum(stats') = OutcomeSum(stats) + 1
               /\ \E i \in 1..3 :
                    /\ Outcomes(stats')[i] = Outcomes(stats)[i] + 1
                    /\ \A j \in 1..3 \ {i} : Outcomes(stats')[j] = Outcomes(stats)[j]
         /\ Skipped(CurrentRef) => Outcomes(stats') = Outcomes(stats)
    /\ pc # "image" => Outcomes(stats') = Outcomes(stats)

C20_Bound ==
    /\ OutcomeSum(stats) <= Len(visited)
    /\ Len(visited) <= Cardinality(AllPositions)

\* C20: each image reference changes at most one of successful_extractions,
\* failed_extractions and filtered_logos, by exactly 1, and none of them when
\* it is empty, unsupported or undersized; the three never add up to more
\* than the number of references enumerated.
C20_OneOutcomePerReference == [][C20_Step]_vars /\ []C20_Bound

\* A run that returned having handled two references, one of them skipped
\* and the other counted.
C20_Witness ==
    /\ pc = "returned"
    /\ Len(visited) = 2
    /\ OutcomeSum(stats) = 1
    /\ \E pos \in Range(visited) : Skipped(RefAt(pos))

\* The references of this call that failed.
FailedNow == {pos \in Range(visited) : Fails(RefAt(pos))}

\* C17: when a call of extract_images_from_pdf returns, the list and the
\* counters hold the images of this call's document only: the list is the
\* names of the accepted references of this call, successful_extractions
\* their number, failed_extractions the number of references of this call
\* that failed.
C17_OnlyThisCall ==
    pc = "returned" =>
        /\ extracted_images = AcceptedNames
        /\ stats.successful_extractions = Len(AcceptedNames)
        /\ stats.failed_extractions = Cardinality(FailedNow)

\* C14: the record get_extraction_stats returns is a snapshot.  The
\* extractor's own counters are what its own activity made them, whatever
\* the callers stored in the records they were given; every returned record
\* holds what it held when returned, changed by its caller's stores only.
C14_ReturnedStatsAreSnapshots ==
    /\ objs.heap[objs.self] = objs.expect_self
    /\ \A i \in DOMAIN objs.returned :
         objs.heap[objs.returned[i]] = objs.expect_returned[i]

\* A record was returned, its caller stored 7 in it, and the extractor went
\* on to save two images after a second record was returned.
C14_Witness ==
    /\ Len(objs.returned) = 2
    /\ objs.heap[objs.returned[1]].total_images = 7
    /\ objs.heap[objs.returned[2]].total_images = 0
    /\ objs.heap[objs.self].total_images = 2

\* The upload is refused by the checks of save_uploaded_file.
Refused(u) == SaveOutcome(u) \in {"invalid_type", "too_large"}

\* C15: for an uploaded file whose name does not end in .pdf or whose size
\* exceeds MAX_FILE_SIZE_MB, save_uploaded_file raises FileValidationError
\* and leaves the upload folder as it was.
C15_Step ==
    (app.pc = "save" /\ Refused(app.upload)) =>
        /\ app'.error.type = "FileValidationError"
        /\ app'.upload_folder = app.upload_folder

C15_RefusedUploadRaisesValidationError == [][C15_Step]_vars

\* C16 as stated: whatever error ended process_uploaded_file, the message
\* shown is the generic error message followed by the reason of that error.
C16_MessageShowsReason ==
    (app.pc = "done" /\ app.error.type # "none") =>
        app.shown = Message("error", <<ERROR_MESSAGE>> \o app.error.reason, 0)

\* The errors process_uploaded_file shows with their reason: a document
\* validate_pdf_file turns down and the application's own exceptions.
OwnErrors ==
    {"invalid", "FileValidationError", "FileOperationError", "PDFProcessingError",
     "ImageExtractionError", "ConfigurationError", "PDFExtractorError"}

\* C16, amended: for an error of the application's own kinds the message
\* shown is the generic error message followed by the reason of that error;
\* for any other exception it is the generic error message followed by the
\* fixed text 'An unexpected error occurred during processing.'.
C16_MessageShowsReasonOfOwnErrors ==
    (app.pc = "done" /\ app.error.type # "none") =>
        IF app.error.type \in OwnErrors
        THEN app.shown = Message("error", <<ERROR_MESSAGE>> \o app.error.reason, 0)
        ELSE app.shown = Message("error", <<ERROR_MESSAGE, UNEXPECTED_MESSAGE>>, 0)

\* A page of the document could not be loaded and the user was told so.
C16_Witness ==
    /\ app.pc = "done"
    /\ app.error.type = "PDFProcessingError"
    /\ app.shown.text = <<ERROR_MESSAGE, "Failed to process PDF:", "load_page">>

\* What the run in progress has put under a name: the image of an accepted
\* reference, or the first bytes of it, however many, where the write
\* failed.
WrittenBy(pos, content) ==
    LET outcome == SingleImageOutcome(RefAt(pos), filter_logos)
    IN \/ outcome = "saved" /\ content = RefAt(pos).image
       \/ outcome = "write_raise" /\ content \in PartialFiles(RefAt(pos).image)

\* From the start of an extraction run until the next upload or cleanup,
\* every file of the output folder was written by this run and every image
\* this run saved is there.
FolderIsOfThisRun ==
    (pc # "idle" /\ app.pc # "cleaned") =>
        /\ \A n \in DOMAIN files :
             \E pos \in Range(visited) : n = NameOf(pos) /\ WrittenBy(pos, files[n])
        /\ \A pos \in Range(visited) :
             Accepted(RefAt(pos)) => NameOf(pos) \in DOMAIN files

\* process_uploaded_file has ended without starting an extraction run: the
\* upload was not saved, was turned down, or the folder was not cleared.
EndedBeforeRun == app.pc = "done" /\ pc = "idle"

\* The upload ended in the handler of clear_output_folder's error.
ClearRaised ==
    /\ app.error.type = "FileOperationError"
    /\ app.error.reason[1] = "Failed to clear output folder:"

\* C12 as stated: a run writes into a folder that holds nothing of earlier
\* runs, and after any sequence of uploads the files of the output folder
\* are exactly those written by the latest extraction run: the run of this
\* upload, or, where this upload ended before its run, what the folder
\* held when the upload came.
C12_FolderIsExactlyOfLatestRun ==
    /\ FolderIsOfThisRun
    /\ EndedBeforeRun => files = app.found

\* C12, amended: a run writes into a folder that holds nothing of earlier
\* runs, and until the next upload or cleanup the files of the folder are
\* exactly those this run wrote; an upload that ends before its run leaves
\* in the folder what it found there, or a part of these files where
\* clear_output_folder raised, and nothing else.
C12_OutputIsOfLatestRun ==
    /\ FolderIsOfThisRun
    /\ EndedBeforeRun =>
         /\ DOMAIN files \subseteq DOMAIN app.found
         /\ \A n \in DOMAIN files : files[n] = app.found[n]
         /\ ~ClearRaised => files = app.found

\* A run has returned with files written, and a file of the run before is
\* no longer there.
C12_Witness ==
    /\ pc = "returned"
    /\ files # NoFiles
    /\ app.last.ran
    /\ \E n \in DOMAIN app.last.files : n \notin DOMAIN files

\* The run that has just returned is of the same document with the same
\* filter_logos as the run that returned before it.
Rerun ==
    /\ app.pc \in {"render", "done"}
    /\ app.result.returned
    /\ app.last.ran
    /\ app.last.pdf = pdf
    /\ app.last.filter = filter_logos

\* C11 as stated: a run on the same document with the same filter_logos as
\* the run before leaves the same files with the same bytes in the output
\* folder and returns the same list and the same statistics.
C11_RerunGivesSameFolder ==
    Rerun =>
        /\ files = app.last.files
        /\ app.result = app.last.result

\* The files of the folder that are none of the listed images are what
\* failed writes of the run left, each under the name of its image and
\* with the first bytes of that image.
LeftoverOfFailedWrites(fs, image_paths) ==
    \A n \in DOMAIN fs \ Range(image_paths) :
        fs[n] \in PartialFiles(RefOfName(n).image)

\* C11, amended: a run on the same document with the same filter_logos as
\* the run before returns the same list and the same statistics, and every
\* listed image is in the folder after both runs with the same bytes; the
\* other files of the folder after either run are what that run's failed
\* writes left, which need not be the same after both.
C11_RerunGivesSameOutput ==
    Rerun =>
        /\ app.result = app.last.result
        /\ \A n \in Range(app.result.image_paths) :
             /\ n \in DOMAIN files
             /\ n \in DOMAIN app.last.files
             /\ files[n] = app.last.files[n]
        /\ LeftoverOfFailedWrites(files, app.result.image_paths)
        /\ LeftoverOfFailedWrites(app.last.files, app.last.result.image_paths)

\* The same document was extracted twice and images were saved.
C11_Witness ==
    /\ Rerun
    /\ app.pc = "done"
    /\ Len(app.result.image_paths) = 2

\* C21: with filter_logos on, a reference whose image cannot be decoded, in
\* a supported format, large enough and writable, is written under its name
\* and listed, successful_extractions grows by 1, and filtered_logos and
\* failed_extractions stay as they are.
C21_Step ==
    (/\ pc = "image"
     /\ filter_logos
     /\ CurrentRef.fetch = "ok"
     /\ ~CurrentRef.image.decodable
     /\ Savable(CurrentRef)) =>
        LET name == [page |-> page_index + 1, img |-> img_index + 1,
                     ext |-> Lower(CurrentRef.ext)]
        IN /\ files' = WriteFile(files, name, CurrentRef.image)
           /\ extracted_images' = Append(extracted_images, name)
           /\ stats'.successful_extractions = stats.successful_extractions + 1
           /\ stats'.filtered_logos = stats.filtered_logos
           /\ stats'.failed_extractions = stats.failed_extractions

C21_UndecodableImageIsSaved == [][C21_Step]_vars

\* A run with filtering on has saved the image that cannot be decoded, and
\* nothing was filtered and nothing failed.
C21_Witness ==
    /\ filter_logos
    /\ \E pos \in Range(visited) :
         /\ RefAt(pos) = RefUndecodable
         /\ NameOf(pos) \in DOMAIN files
         /\ files[NameOf(pos)] = RefUndecodable.image
    /\ stats.successful_extractions = 1
    /\ stats.filtered_logos = 0
    /\ stats.failed_extractions = 0

\* The callback has raised at its call number callback_fails_at.
CallbackHasRaised ==
    /\ has_callback
    /\ callback_fails_at >= 1
    /\ Len(progress) >= callback_fails_at

\* The calls of a run that returns, the order of the pages, and the end of
\* the page loop at the call that raises.
CallbacksInOrder ==
    /\ (pc = "returned" /\ has_callback) =>
           progress = [k \in 1..NumPages |-> <<k, NumPages>>]
    /\ \A i, j \in DOMAIN visited : i < j => visited[i][1] <= visited[j][1]
    /\ CallbackHasRaised =>
           /\ pc = "raised"
           /\ error.cause = "callback"
           /\ Len(progress) = callback_fails_at
           /\ \A pos \in Range(visited) : pos[1] < callback_fails_at

\* C22 as stated: a run over T pages that returns has called the callback T
\* times, with (1, T), (2, T), ..., (T, T) in this order; the references
\* are handled page after page in increasing order; once the callback has
\* raised, at its call for page k, the run has raised PDFProcessingError,
\* no call follows and no reference of page k or of a later page is
\* handled.
C22_CallbackFailureIsProcessingError ==
    /\ CallbacksInOrder
    /\ CallbackHasRaised => error.type = "PDFProcessingError"

\* C22: a run over T pages that returns has called the callback T times,
\* with (1, T), (2, T), ..., (T, T) in this order; the references are
\* handled page after page in increasing order; once the callback has
\* raised, at its call for page k, no call follows and no reference of
\* page k or of a later page is handled; the run has raised
\* PDFProcessingError and logged the failure if the callback raised an
\* Exception, and has let the callback's exception pass, with nothing
\* logged for it, if it raised another BaseException.
C22_CallbackPerPageInOrder ==
    /\ CallbacksInOrder
    /\ (CallbackHasRaised /\ callback_exception = "Exception") =>
           /\ error = Raise("callback")
           /\ Len(log) >= 1
           /\ log[Len(log)] = <<"pdf", callback_fails_at>>
    /\ (CallbackHasRaised /\ callback_exception = "BaseException") =>
           /\ error = Propagate("callback")
           /\ \A i \in DOMAIN log : log[i][1] # "pdf"

\* The callback raised a BaseException at its call for page 3, after the
\* image of page 1 was saved: the run ended with that exception and the
\* image of page 3 is not in the output folder.
C22_Witness ==
    /\ pdf = DocLogoPhoto
    /\ CallbackHasRaised
    /\ callback_exception = "BaseException"
    /\ error = Propagate("callback")
    /\ progress = <<<<1, 3>>, <<2, 3>>, <<3, 3>>>>
    /\ pc = "raised"
    /\ files # NoFiles
    /\ PositionsOf(3) \cap Range(visited) = {}

\* C23: while a gallery is displayed, every index of selected_images is an
\* index of the displayed image paths, and the selected count shown does
\* not exceed the number of images shown with it.
C23_SelectionWithinResult ==
    session.displayed =>
        /\ session.selected_images \subseteq 0..(session.image_paths - 1)
        /\ session.shown[1] <= session.shown[2]

=============================================================================
